---- MODULE Spec2Model ----
(***************************************************************************)
(* Model of magenta/models/shared/self_similarity_rnn_graph.py:            *)
(* build_graph and the self-similarity attention it wires into each layer. *)
(*                                                                         *)
(* Tensors are modelled at two levels.                                     *)
(*  - Shape level: every tensor handle carries its full shape              *)
(*    <<batch, steps, features>>, and every TensorFlow operation the file  *)
(*    calls is modelled by its shape rule (a mismatch gives ShapeError).   *)
(*  - Value level: the values of batch element 1, with the feature axis    *)
(*    collapsed to one scalar per step.  Every operation of                *)
(*    self_similarity_attention acts on each batch element independently   *)
(*    (slices are on the step axes, softmax is over the last axis, matmul  *)
(*    is batched), so one element stands for all.                          *)
(* Softmax weights are exact rationals <<numerator, denominator>> with     *)
(* Exp(s) = 2^s standing for e^s (positive, strictly increasing).          *)
(***************************************************************************)
EXTENDS Integers, Sequences, FiniteSets, TLC

VARIABLES
  pc,              \* position in build_graph
  mode,            \* the mode argument
  config,          \* the config argument (hparams, encoder_decoder)
  raised,          \* the exception raised, NoError if none
  graph,           \* [created, returned]: tf.Graph() entered / returned
  inputs,          \* handle of the inputs tensor
  lengths,         \* per-example true lengths, <<>> when None
  past_targets,    \* list of per-layer past-target handles
  layer,           \* number of layers built so far
  layer_inputs,    \* handle of the input of the next layer
  targets,         \* list of per-layer rnn_outputs handles
  initial_state,   \* list of per-layer structured initial states
  final_state,     \* list of per-layer structured final states
  self_similarity, \* list of per-layer self-similarity handles
  cur,             \* values flowing through the layer built last
  flat,            \* flattened tail: positions and labels
  metrics,         \* train-mode metric values
  collections      \* graph collections: name -> list of registered values

vars == <<pc, mode, config, raised, graph, inputs, lengths, past_targets,
          layer, layer_inputs, targets, initial_state, final_state,
          self_similarity, cur, flat, metrics, collections>>

(***************************************************************************)
(* Bounds of the model.                                                    *)
(***************************************************************************)
MaxSteps == 3   \* largest number of current steps T in a batch
MaxPast == 2    \* largest number of fed past steps Tp (generate mode)

Vals == {0, 1}  \* scalar values of a step's feature vector

\* Mode arguments tried: the three valid ones and some others.
Modes == {"train", "eval", "generate", "Train", "predict", ""}

\* Configurations tried.  The first is the end-to-end example (one layer of
\* size [4], embedding size 2, input size 3, batch 2); the second has two
\* layers, the first a stack of two cells.
Configs ==
  { [hparams |-> [batch_size |-> 2,
                  rnn_layer_sizes |-> << <<4>> >>,
                  embedding_sizes |-> <<2>>],
     encoder_decoder |-> [input_size |-> 3, num_classes |-> 2,
                          default_event_label |-> 0]],
    [hparams |-> [batch_size |-> 1,
                  rnn_layer_sizes |-> << <<3, 2>>, <<2>> >>,
                  embedding_sizes |-> <<2, 1>>],
     encoder_decoder |-> [input_size |-> 2, num_classes |-> 2,
                          default_event_label |-> 0]] }

\* Weights (w, b) of the two embedding projections of a layer, each
\* relu(w * x + b): the one applied to the inputs and the one applied to
\* the targets.
EmbeddingWeights ==
  { [inputs |-> [w |-> 1, b |-> 0], targets |-> [w |-> 1, b |-> 0]],
    [inputs |-> [w |-> 2, b |-> 0], targets |-> [w |-> -1, b |-> 1]] }

(***************************************************************************)
(* Helpers.                                                                *)
(***************************************************************************)
Max(a, b) == IF a >= b THEN a ELSE b
Min(a, b) == IF a <= b THEN a ELSE b

Last(s) == s[Len(s)]

RECURSIVE SumSeq(_)
SumSeq(s) == IF s = <<>> THEN 0 ELSE Head(s) + SumSeq(Tail(s))

RECURSIVE Pow2(_)
Pow2(n) == IF n <= 0 THEN 1 ELSE 2 * Pow2(n - 1)

\* Exact rationals <<num, den>>, den > 0.
RatZero == <<0, 1>>
RatAdd(p, q) == <<p[1] * q[2] + q[1] * p[2], p[2] * q[2]>>
RatScale(p, k) == <<p[1] * k, p[2]>>
RatEq(p, q) == p[1] * q[2] = q[1] * p[2]

RECURSIVE RatSum(_)
RatSum(s) == IF s = <<>> THEN RatZero ELSE RatAdd(Head(s), RatSum(Tail(s)))

NoError == [kind |-> "none", value |-> ""]
ShapeError == <<-1>>

\* A tensor handle: what it is (kind, layer, sub-cell, part) and its shape.
Tensor(kind, l, c, part, sh) == [name |-> <<kind, l, c, part>>, shape |-> sh]
NoneTensor == Tensor("None", 0, 0, "", <<>>)

(***************************************************************************)
(* Python / TensorFlow slicing along one axis of length n.                 *)
(***************************************************************************)
\* The position a slice bound k denotes: negative counts from the end,
\* and the result is clamped to [0, n].
SliceBound(k, n) == IF k < 0 THEN Max(n + k, 0) ELSE Min(k, n)

\* s[:k]
SliceTo(s, k) == SubSeq(s, 1, SliceBound(k, Len(s)))
\* s[k:]
SliceFrom(s, k) == SubSeq(s, SliceBound(k, Len(s)) + 1, Len(s))

\* Mutant: a slice that drops nothing.
ShapeSliceTo_Whole(sh, k) == sh

\* Shape of t[:, :k, :] and of t[:, k:, :].
ShapeSliceTo(sh, k) ==
  IF sh = ShapeError THEN ShapeError
  ELSE <<sh[1], SliceBound(k, sh[2]), sh[3]>>
ShapeSliceFrom(sh, k) ==
  IF sh = ShapeError THEN ShapeError
  ELSE <<sh[1], sh[2] - SliceBound(k, sh[2]), sh[3]>>

\* tf.concat([a, b], axis=1)
ShapeConcat1(a, b) ==
  IF a = ShapeError \/ b = ShapeError THEN ShapeError
  ELSE IF a[1] # b[1] \/ a[3] # b[3] THEN ShapeError
  ELSE <<a[1], a[2] + b[2], a[3]>>

\* tf.concat([a, b], axis=2)
ShapeConcat2(a, b) ==
  IF a = ShapeError \/ b = ShapeError THEN ShapeError
  ELSE IF a[1] # b[1] \/ a[2] # b[2] THEN ShapeError
  ELSE <<a[1], a[2], a[3] + b[3]>>

\* tf.matmul(a, b) and tf.matmul(a, b, transpose_b=True) on rank-3 tensors.
ShapeMatmul(a, b, transpose_b) ==
  IF a = ShapeError \/ b = ShapeError THEN ShapeError
  ELSE LET inner == IF transpose_b THEN b[3] ELSE b[2]
           outer == IF transpose_b THEN b[2] ELSE b[3]
       IN IF a[1] # b[1] \/ a[3] # inner THEN ShapeError
          ELSE <<a[1], a[2], outer>>

\* tf.range(start, limit)
Range(start, limit) == [i \in 1..Max(limit - start, 0) |-> start + i - 1]

(***************************************************************************)
(* input_embeddings                                                        *)
(***************************************************************************)
\* Shape: expand_dims gives (B, T, D, 1); the VALID convolution with a
\* [1, input_size] kernel gives (B, T, D - input_size + 1, E); squeeze on
\* axis 2 needs that axis to be 1.
input_embeddings_shape(sh, input_size, embedding_size) ==
  IF sh = ShapeError THEN ShapeError
  ELSE IF sh[3] - input_size + 1 # 1 THEN ShapeError
  ELSE <<sh[1], sh[2], embedding_size>>

\* Values: the same affine map and relu at every step, no cross-step term.
input_embeddings(x, wt) ==
  [i \in 1..Len(x) |-> Max(wt.w * x[i] + wt.b, 0)]

(***************************************************************************)
(* similarity_weighted_attention                                           *)
(***************************************************************************)
Exp(s) == Pow2(s)

\* tf.nn.softmax over a (possibly empty) row.
Softmax(row) ==
  LET den == SumSeq([j \in 1..Len(row) |-> Exp(row[j])])
  IN [j \in 1..Len(row) |-> <<Exp(row[j]), den>>]

zeros_like(row) == [j \in 1..Len(row) |-> RatZero]

\* Mutants: the range starting one step early, and one step late.
AttentionSteps_Early(num_input_steps, num_target_steps) ==
  Range(num_target_steps - num_input_steps, num_target_steps)
AttentionSteps_Late(num_input_steps, num_target_steps) ==
  Range(num_target_steps - num_input_steps + 2, num_target_steps + 2)

\* steps = tf.range(num_target_steps - num_input_steps + 1,
\*                  num_target_steps + 1)
AttentionSteps(num_input_steps, num_target_steps) ==
  Range(num_target_steps - num_input_steps + 1, num_target_steps + 1)

\* Mutant: a softmax over the whole row, masked afterwards.
similarity_to_attention_Full(step, sim) ==
  SliceTo(Softmax(sim), step) \o zeros_like(SliceFrom(sim, step))

\* The masked softmax of one row.
similarity_to_attention(step, sim) ==
  Softmax(SliceTo(sim, step)) \o zeros_like(SliceFrom(sim, step))

\* tf.map_fn over (steps, rows)
AttentionMatrix(steps, sim) ==
  [r \in 1..Len(sim) |-> similarity_to_attention(steps[r], sim[r])]

\* tf.matmul(attention, targets), values.
AttentionMatmul(attention, tgt) ==
  [r \in 1..Len(attention) |->
     RatSum([j \in 1..Len(attention[r]) |->
               RatScale(attention[r][j], tgt[j].val)])]

\* Mutant: the unit rejecting more input steps than target steps.
similarity_weighted_attention_shape_Checked(tsh, ssh) ==
  IF ssh = ShapeError \/ ssh[2] > ssh[3] THEN ShapeError
  ELSE ShapeMatmul(ssh, tsh, FALSE)

\* Shape of the result: attention has the shape of self_similarity (each
\* row is the two slices of the row put back together), and the final
\* matmul needs as many targets as self_similarity has columns.
similarity_weighted_attention_shape(tsh, ssh) ==
  ShapeMatmul(ssh, tsh, FALSE)

(***************************************************************************)
(* self_similarity_attention                                               *)
(***************************************************************************)
self_similarity_attention_shape(ish, psh, input_size, embedding_size) ==
  LET embeddings == input_embeddings_shape(ish, input_size, embedding_size)
      tsh == ShapeConcat1(psh, ish)
      target_embeddings ==
        input_embeddings_shape(ShapeSliceTo(tsh, -1), input_size,
                               embedding_size)
      ssh == ShapeMatmul(embeddings, target_embeddings, TRUE)
      ash == similarity_weighted_attention_shape(ShapeSliceFrom(tsh, 1), ssh)
  IN [attention_outputs |-> ash,
      self_similarity |-> IF ash = ShapeError THEN ShapeError ELSE ssh]

\* Mutant: attention over the targets the similarity was computed against
\* (all but the last) instead of all but the first.
self_similarity_attention_SameTargets(x, past, w_in, w_tgt, sh) ==
  LET embeddings == input_embeddings(x, w_in)
      all == past \o x
      tagged == [p \in 1..Len(all) |-> [pos |-> p - 1, val |-> all[p]]]
      target_embeddings == input_embeddings(SliceTo(all, -1), w_tgt)
      sim == [r \in 1..Len(embeddings) |->
                [j \in 1..Len(target_embeddings) |->
                   embeddings[r] * target_embeddings[j]]]
      attn_targets == SliceTo(tagged, -1)
      steps == AttentionSteps(Len(sim), Len(target_embeddings))
      attention == AttentionMatrix(steps, sim)
  IN [rnn_outputs |-> x, past |-> past, w_in |-> w_in, w_tgt |-> w_tgt,
      shape |-> sh.attention_outputs,
      sim |-> sim, steps |-> steps, attn_targets |-> attn_targets,
      attention |-> attention,
      attention_outputs |-> AttentionMatmul(attention, attn_targets)]

\* Values.  Each element of the concatenated targets is tagged with its
\* absolute position (0-based) in past_inputs || inputs; sh is the pair of
\* shapes self_similarity_attention_shape gives for the same call.
self_similarity_attention(x, past, w_in, w_tgt, sh) ==
  LET embeddings == input_embeddings(x, w_in)
      all == past \o x
      tagged == [p \in 1..Len(all) |-> [pos |-> p - 1, val |-> all[p]]]
      target_embeddings == input_embeddings(SliceTo(all, -1), w_tgt)
      sim == [r \in 1..Len(embeddings) |->
                [j \in 1..Len(target_embeddings) |->
                   embeddings[r] * target_embeddings[j]]]
      attn_targets == SliceFrom(tagged, 1)
      steps == AttentionSteps(Len(sim), Len(target_embeddings))
      attention == AttentionMatrix(steps, sim)
  IN [rnn_outputs |-> x, past |-> past, w_in |-> w_in, w_tgt |-> w_tgt,
      shape |-> sh.attention_outputs,
      sim |-> sim, steps |-> steps, attn_targets |-> attn_targets,
      attention |-> attention,
      attention_outputs |-> AttentionMatmul(attention, attn_targets)]

NoValues ==
  [rnn_outputs |-> <<>>, past |-> <<>>,
   w_in |-> [w |-> 0, b |-> 0], w_tgt |-> [w |-> 0, b |-> 0],
   shape |-> <<>>,
   sim |-> <<>>, steps |-> <<>>, attn_targets |-> <<>>,
   attention |-> <<>>, attention_outputs |-> <<>>]


(***************************************************************************)
(* Collaborators of build_graph.                                           *)
(***************************************************************************)
\* make_rnn_cell: one sub-cell per configured size.
make_rnn_cell(rnn_layer_sizes) ==
  [c \in 1..Len(rnn_layer_sizes) |-> rnn_layer_sizes[c]]

\* The structured state of a MultiRNNCell of BasicLSTMCells: one (c, h)
\* pair per sub-cell.
CellState(kind, l, cell, batch_size) ==
  [c \in 1..Len(cell) |->
     << Tensor(kind, l, c, "c", <<batch_size, cell[c]>>),
        Tensor(kind, l, c, "h", <<batch_size, cell[c]>>) >>]

\* tf_nest.flatten of such a state: c1, h1, c2, h2, ...
RECURSIVE flatten(_)
flatten(state) ==
  IF state = <<>> THEN <<>> ELSE Head(state) \o flatten(Tail(state))

\* magenta.common.flatten_maybe_padded_sequences: the valid steps of the
\* batch, batch-major then in time order, as <<example, step>> positions;
\* every step when lengths is None.
RECURSIVE FlattenFrom(_, _, _, _)
FlattenFrom(b, batch_size, num_steps, lens) ==
  IF b > batch_size THEN <<>>
  ELSE [t \in 1..(IF lens = <<>> THEN num_steps ELSE lens[b]) |-> <<b, t>>]
       \o FlattenFrom(b + 1, batch_size, num_steps, lens)

flatten_maybe_padded_sequences(sh, lens) == FlattenFrom(1, sh[1], sh[2], lens)

\* Mutant: registering a value replaces what the collection held.
add_to_collection_Overwrite(colls, name, value) ==
  [colls EXCEPT ![name] = <<value>>]

\* tf.add_to_collection
add_to_collection(colls, name, value) ==
  [colls EXCEPT ![name] = Append(@, value)]

RECURSIVE add_all_to_collection(_, _, _)
add_all_to_collection(colls, name, values) ==
  IF values = <<>> THEN colls
  ELSE add_all_to_collection(add_to_collection(colls, name, Head(values)),
                             name, Tail(values))

\* The keys of vars_to_summarize in train mode.
TrainNames ==
  << "loss", "metrics/perplexity", "metrics/accuracy",
     "metrics/event_accuracy", "metrics/no_event_accuracy",
     "metrics/loss_per_step", "metrics/perplexity_per_step" >>

\* The keys given to aggregate_metric_map in eval mode ...
EvalMetricNames ==
  << "loss", "metrics/accuracy", "metrics/per_class_accuracy",
     "metrics/event_accuracy", "metrics/no_event_accuracy",
     "metrics/loss_per_step" >>
\* ... and the keys of vars_to_summarize once the perplexities are added.
EvalNames ==
  EvalMetricNames \o << "metrics/perplexity", "metrics/perplexity_per_step" >>

GenerateNames ==
  {"inputs", "temperature", "softmax", "targets", "past_targets",
   "initial_state", "final_state"}

Range1(s) == {s[i] : i \in 1..Len(s)}

CollectionNames ==
  Range1(TrainNames) \cup Range1(EvalNames) \cup GenerateNames
    \cup {"train_op", "eval_ops", "summaries"}

NoCollections == [n \in CollectionNames |-> <<>>]

\* for var_name, var_value in vars_to_summarize: tf.summary.scalar and
\* tf.add_to_collection.  (The order of the dictionary is not modelled.)
RECURSIVE summarize(_, _)
summarize(colls, names) ==
  IF names = <<>> THEN colls
  ELSE summarize(
         add_to_collection(
           add_to_collection(colls, "summaries",
                             Tensor("summary.scalar", 0, 0, Head(names), <<>>)),
           Head(names), Tensor("metric", 0, 0, Head(names), <<>>)),
         Tail(names))

\* tf.summary.image('self_similarity_%d' % (layer + 1), ...) for each layer.
RECURSIVE image_summaries(_, _, _)
image_summaries(colls, sims, l) ==
  IF l > Len(sims) THEN colls
  ELSE image_summaries(
         add_to_collection(colls, "summaries",
                           Tensor("summary.image", l, 0, "self_similarity",
                                  sims[l].shape)),
         sims, l + 1)

\* a / b on floats: <<a, b>>; b = 0 is a division by zero (NaN or inf).
Div(a, b) == <<a, b>>

\* tf.metrics.recall: true positives / (true positives + false negatives),
\* 0 when there is no positive.
Recall(tp, positives) == IF positives > 0 THEN <<tp, positives>> ELSE RatZero

NoFlat == [positions |-> <<>>, labels_flat |-> <<>>]
NoMetrics ==
  [accuracy |-> RatZero, event_accuracy |-> RatZero,
   no_event_accuracy |-> RatZero]

(***************************************************************************)
(* build_graph                                                             *)
(***************************************************************************)
hparams == config.hparams
encoder_decoder == config.encoder_decoder
num_layers == Len(hparams.rnn_layer_sizes)
\* Mutant: the mode check without 'generate'.
ValidModes_NoGenerate == {"train", "eval"}
ValidModes == {"train", "eval", "generate"}

\* Mutant: one step of zeros as the past targets.
ZeroPastTargets_OneStep(l) ==
  Tensor("zeros", l, 0, "past_targets",
         <<hparams.batch_size, 1, Last(hparams.rnn_layer_sizes[l])>>)

\* tf.zeros([batch_size, 0, rnn_layer_sizes[layer][-1]])
ZeroPastTargets(l) ==
  Tensor("zeros", l, 0, "past_targets",
         <<hparams.batch_size, 0, Last(hparams.rnn_layer_sizes[l])>>)

Init ==
  /\ pc = "start"
  /\ mode \in Modes
  /\ config \in Configs
  /\ raised = NoError
  /\ graph = [created |-> FALSE, returned |-> FALSE]
  /\ inputs = NoneTensor
  /\ lengths = <<>>
  /\ past_targets = <<>>
  /\ layer = 0
  /\ layer_inputs = NoneTensor
  /\ targets = <<>>
  /\ initial_state = <<>>
  /\ final_state = <<>>
  /\ self_similarity = <<>>
  /\ cur = NoValues
  /\ flat = NoFlat
  /\ metrics = NoMetrics
  /\ collections = NoCollections

\* The mode check, then tf.Graph().as_default().
CheckMode ==
  /\ pc = "start"
  /\ IF mode \notin ValidModes
     THEN /\ raised' = [kind |-> "ValueError", value |-> mode]
          /\ pc' = "raised"
          /\ UNCHANGED graph
     ELSE /\ graph' = [graph EXCEPT !.created = TRUE]
          /\ pc' = "inputs"
          /\ UNCHANGED raised
  /\ UNCHANGED <<mode, config, inputs, lengths, past_targets, layer,
                 layer_inputs, targets, initial_state, final_state,
                 self_similarity, cur, flat, metrics, collections>>

\* train / eval: a padded batch (padded to its longest example) and
\* zero-length past targets for every layer.
MakeBatchInputs ==
  /\ pc = "inputs"
  /\ mode \in {"train", "eval"}
  /\ \E T \in 1..MaxSteps :
       \E lens \in [1..hparams.batch_size -> 1..T] :
         /\ \E b \in 1..hparams.batch_size : lens[b] = T
         /\ inputs' = Tensor("get_padded_batch", 0, 0, "inputs",
                             <<hparams.batch_size, T,
                               encoder_decoder.input_size>>)
         /\ lengths' = lens
  /\ past_targets' = [l \in 1..num_layers |-> ZeroPastTargets(l)]
  /\ layer_inputs' = inputs'
  /\ pc' = "layers"
  /\ UNCHANGED <<mode, config, raised, graph, layer, targets, initial_state,
                 final_state, self_similarity, cur, flat, metrics,
                 collections>>

\* generate: placeholders.  The numbers of steps fed are free; the past
\* targets fed to the layers are their targets over the same earlier steps,
\* so every layer is fed the same number of past steps.
MakePlaceholderInputs ==
  /\ pc = "inputs"
  /\ mode = "generate"
  /\ \E T \in 1..MaxSteps :
       inputs' = Tensor("placeholder", 0, 0, "inputs",
                        <<hparams.batch_size, T, encoder_decoder.input_size>>)
  /\ \E Tp \in 0..MaxPast :
       past_targets' =
         [l \in 1..num_layers |->
            Tensor("placeholder", l, 0, "past_targets",
                   <<hparams.batch_size, Tp,
                     Last(hparams.rnn_layer_sizes[l])>>)]
  /\ lengths' = <<>>
  /\ layer_inputs' = inputs'
  /\ pc' = "layers"
  /\ UNCHANGED <<mode, config, raised, graph, layer, targets, initial_state,
                 final_state, self_similarity, cur, flat, metrics,
                 collections>>

\* One iteration of the layer loop.  dynamic_rnn is an opaque function of
\* its inputs whose outputs are zero past the example's length; the values
\* fed for the past targets and the embedding weights are free.
Layer ==
  /\ pc = "layers"
  /\ layer < num_layers
  /\ LET l == layer + 1
         cell == make_rnn_cell(hparams.rnn_layer_sizes[l])
         B == hparams.batch_size
         T == layer_inputs.shape[2]
         D == Last(hparams.rnn_layer_sizes[l])
         rnn_outputs == Tensor("rnn_outputs", l, 0, "", <<B, T, D>>)
         sh == self_similarity_attention_shape(
                 rnn_outputs.shape, past_targets[l].shape, D,
                 hparams.embedding_sizes[l])
         outputs == ShapeConcat2(rnn_outputs.shape, sh.attention_outputs)
     IN IF outputs = ShapeError
        THEN /\ raised' = [kind |-> "InvalidArgumentError", value |-> ""]
             /\ pc' = "raised"
             /\ UNCHANGED <<layer, layer_inputs, targets, initial_state,
                            final_state, self_similarity, cur>>
        ELSE /\ \E x \in [1..T -> Vals] :
                  \E past \in [1..past_targets[l].shape[2] -> Vals] :
                    \E wts \in EmbeddingWeights :
                      /\ lengths # <<>> =>
                           \A i \in 1..T : i > lengths[1] => x[i] = 0
                      /\ cur' = self_similarity_attention(
                                  x, past, wts.inputs, wts.targets, sh)
             /\ targets' = Append(targets, rnn_outputs)
             /\ initial_state' =
                  Append(initial_state, CellState("zero_state", l, cell, B))
             /\ final_state' =
                  Append(final_state, CellState("final_state", l, cell, B))
             /\ self_similarity' =
                  Append(self_similarity,
                         Tensor("self_similarity", l, 0, "",
                                sh.self_similarity))
             /\ layer_inputs' = Tensor("outputs", l, 0, "", outputs)
             /\ layer' = l
             /\ UNCHANGED <<raised, pc>>
  /\ UNCHANGED <<mode, config, graph, inputs, lengths, past_targets, flat,
                 metrics, collections>>

\* flatten_maybe_padded_sequences and the linear layer; in train and eval
\* also the flattened labels.  The labels come with the batch and are first
\* read here, so their values are drawn here.  The layer loop's per-step
\* values are not read again (the logits are an opaque learned function of
\* the outputs), so they are dropped from the state.
Flatten ==
  /\ pc = "layers"
  /\ layer = num_layers
  /\ LET positions ==
           flatten_maybe_padded_sequences(layer_inputs.shape, lengths)
     IN IF mode \in {"train", "eval"}
        THEN \E labels_flat \in
                 [1..Len(positions) -> 0..(encoder_decoder.num_classes - 1)] :
               flat' = [positions |-> positions, labels_flat |-> labels_flat]
        ELSE flat' = [positions |-> positions, labels_flat |-> <<>>]
  /\ cur' = NoValues
  /\ pc' = "tail"
  /\ UNCHANGED <<mode, config, raised, graph, inputs, lengths, past_targets,
                 layer, layer_inputs, targets, initial_state, final_state,
                 self_similarity, metrics, collections>>

\* Sums over the flattened positions, given the predictions (the argmax of
\* the logits, an opaque function of the outputs).
Correct(pred) ==
  [n \in 1..Len(pred) |-> IF flat.labels_flat[n] = pred[n] THEN 1 ELSE 0]
EventPositions ==
  [n \in 1..Len(flat.labels_flat) |->
     IF flat.labels_flat[n] # encoder_decoder.default_event_label
     THEN 1 ELSE 0]
NoEventPositions ==
  [n \in 1..Len(flat.labels_flat) |->
     IF flat.labels_flat[n] = encoder_decoder.default_event_label
     THEN 1 ELSE 0]
Dot(a, b) == SumSeq([n \in 1..Len(a) |-> a[n] * b[n]])

TrainMetrics(pred) ==
  [accuracy |-> Div(SumSeq(Correct(pred)), Len(pred)),
   event_accuracy |->
     Div(Dot(Correct(pred), EventPositions), SumSeq(EventPositions)),
   no_event_accuracy |->
     Div(Dot(Correct(pred), NoEventPositions), SumSeq(NoEventPositions))]

EvalMetrics(pred) ==
  [accuracy |-> Div(SumSeq(Correct(pred)), Len(pred)),
   event_accuracy |->
     Recall(Dot(Correct(pred), EventPositions), SumSeq(EventPositions)),
   no_event_accuracy |->
     Recall(Dot(Correct(pred), NoEventPositions), SumSeq(NoEventPositions))]

\* The predictions tried: one class everywhere, all right, all wrong.
Predictions ==
  LET N == Len(flat.labels_flat)
      C == encoder_decoder.num_classes
  IN {[n \in 1..N |-> c] : c \in 0..(C - 1)}
       \cup {flat.labels_flat,
             [n \in 1..N |-> (flat.labels_flat[n] + 1) % C]}

\* What the train branch registers.
TrainCollections ==
  summarize(
    image_summaries(
      add_to_collection(collections, "train_op",
                        Tensor("train_op", 0, 0, "", <<>>)),
      self_similarity, 1),
    TrainNames)

TrainTail ==
  /\ pc = "tail"
  /\ mode = "train"
  /\ \E pred \in Predictions : metrics' = TrainMetrics(pred)
  /\ collections' = TrainCollections
  /\ pc' = "return"
  /\ UNCHANGED <<mode, config, raised, graph, inputs, lengths, past_targets,
                 layer, layer_inputs, targets, initial_state, final_state,
                 self_similarity, cur, flat>>

\* What the eval branch registers: one update op per aggregated metric.
EvalCollections ==
  summarize(
    add_all_to_collection(
      collections, "eval_ops",
      [n \in 1..Len(EvalMetricNames) |->
         Tensor("update_op", 0, 0, EvalMetricNames[n], <<>>)]),
    EvalNames)

EvalTail ==
  /\ pc = "tail"
  /\ mode = "eval"
  /\ \E pred \in Predictions : metrics' = EvalMetrics(pred)
  /\ collections' = EvalCollections
  /\ pc' = "return"
  /\ UNCHANGED <<mode, config, raised, graph, inputs, lengths, past_targets,
                 layer, layer_inputs, targets, initial_state, final_state,
                 self_similarity, cur, flat>>

\* The per-layer registrations of the generate branch, for layers l..n.
RECURSIVE generate_layers(_, _)
generate_layers(colls, l) ==
  IF l > num_layers THEN colls
  ELSE generate_layers(
         add_all_to_collection(
           add_all_to_collection(
             add_to_collection(
               add_to_collection(colls, "targets", targets[l]),
               "past_targets", past_targets[l]),
             "initial_state", flatten(initial_state[l])),
           "final_state", flatten(final_state[l])),
         l + 1)

GenerateCollections ==
  generate_layers(
    add_to_collection(
      add_to_collection(
        add_to_collection(collections, "inputs", inputs),
        "temperature", Tensor("placeholder", 0, 0, "temperature", <<>>)),
      "softmax",
      Tensor("softmax", 0, 0, "",
             <<hparams.batch_size, inputs.shape[2],
               encoder_decoder.num_classes>>)),
    1)

GenerateTail ==
  /\ pc = "tail"
  /\ mode = "generate"
  /\ collections' = GenerateCollections
  /\ pc' = "return"
  /\ UNCHANGED <<mode, config, raised, graph, inputs, lengths, past_targets,
                 layer, layer_inputs, targets, initial_state, final_state,
                 self_similarity, cur, flat, metrics>>

\* return graph
Return ==
  /\ pc = "return"
  /\ graph' = [graph EXCEPT !.returned = TRUE]
  /\ pc' = "done"
  /\ UNCHANGED <<mode, config, raised, inputs, lengths, past_targets, layer,
                 layer_inputs, targets, initial_state, final_state,
                 self_similarity, cur, flat, metrics, collections>>

Next ==
  \/ CheckMode
  \/ MakeBatchInputs
  \/ MakePlaceholderInputs
  \/ Layer
  \/ Flatten
  \/ TrainTail
  \/ EvalTail
  \/ GenerateTail
  \/ Return

Spec == Init /\ [][Next]_vars

(***************************************************************************)
(* Properties.                                                             *)
(***************************************************************************)
\* A layer has just been built: cur holds the values of layer `layer`.
LayerBuilt == pc = "layers" /\ layer >= 1

\* The numbers of input and target steps of the attention unit's call for
\* the layer built last, and the number of past steps it was given.
Ti == self_similarity[layer].shape[2]
Tt == self_similarity[layer].shape[3]
Tp == past_targets[layer].shape[2]

One == <<1, 1>>

\* C1: build_graph with a mode outside {'train', 'eval', 'generate'} raises
\* a ValueError naming the mode before the graph or any tensor exists and
\* returns no graph; with a valid mode it never raises it.
C1_ModeCheck ==
  /\ pc # "start" =>
       ((raised.kind = "ValueError") <=>
          (mode \notin {"train", "eval", "generate"}))
  /\ raised.kind = "ValueError" =>
       /\ raised.value = mode
       /\ pc = "raised"
       /\ graph = [created |-> FALSE, returned |-> FALSE]
       /\ inputs = NoneTensor /\ past_targets = <<>> /\ targets = <<>>
       /\ self_similarity = <<>> /\ collections = NoCollections
  /\ graph.returned => mode \in {"train", "eval", "generate"}

C1_Witness ==
  pc = "raised" /\ mode = "predict" /\ raised.value = "predict"

\* C2: with offset = Tt - Ti, row i (0-based) has weight exactly 0 at every
\* column j >= offset + i + 1, and its softmax is taken over exactly the
\* columns [0, offset + i + 1); the last row sees all Tt columns.
C2_CausalMask ==
  LayerBuilt =>
    LET offset == Tt - Ti
    IN /\ Len(cur.attention) = Ti
       /\ \A r \in 1..Ti :
            LET W == offset + r   \* offset + i + 1 for i = r - 1
                den == SumSeq([k \in 1..W |-> Exp(cur.sim[r][k])])
            IN /\ Len(cur.attention[r]) = Tt
               /\ cur.steps[r] = W
               /\ \A j \in 1..Tt :
                    IF j > W
                    THEN cur.attention[r][j] = RatZero
                    ELSE cur.attention[r][j] = <<Exp(cur.sim[r][j]), den>>
       /\ Ti >= 1 => cur.steps[Ti] = Tt

C2_Witness ==
  /\ LayerBuilt /\ Ti = 3 /\ Tt = 4
  /\ cur.attention[1][3] = RatZero
  /\ cur.attention[1][2] = <<2, 3>>
  /\ cur.attention[3][4][1] > 0

\* C3 as stated: every row of the attention distribution sums to 1, for
\* every T >= 1 and Tp >= 0.
C3_Original ==
  LayerBuilt => \A r \in 1..Ti : RatEq(RatSum(cur.attention[r]), One)

\* C3 as amended: row i's window has Tp + i columns; every row with a
\* non-empty window has positive weights summing to 1 over the window; with
\* Tp = 0 row 0 has an empty window, all its weights are 0 and its attention
\* output is 0.
C3_RowsNormalised ==
  LayerBuilt =>
    \A r \in 1..Ti :
      LET W == Tp + r - 1
      IN IF W >= 1
         THEN /\ RatEq(RatSum(SubSeq(cur.attention[r], 1, W)), One)
              /\ \A j \in 1..W : cur.attention[r][j][1] > 0
         ELSE /\ Tp = 0 /\ r = 1
              /\ \A j \in 1..Tt : cur.attention[r][j] = RatZero
              /\ RatEq(cur.attention_outputs[r], RatZero)

C3_Witness ==
  /\ LayerBuilt /\ Tp = 0 /\ Ti = 3
  /\ cur.attention[1] = <<RatZero, RatZero>>
  /\ RatEq(RatSum(cur.attention[3]), One)

\* C4 as stated: given more input steps than target steps the attention
\* unit raises an error and produces no attention output.
C4_Original ==
  (layer >= 1 /\ pc = "layers" /\ Ti > Tt) =>
    (raised # NoError /\ cur.attention_outputs = <<>>)

\* C4 as amended: the unit checks nothing.  Given Ti = Tt + 1 (every call
\* with empty past inputs) it raises no error and returns Ti rows, the
\* first of them from an empty window (all-zero weights, zero output); no
\* call made by build_graph ends in a shape or precondition error.
C4_NoPreconditionCheck ==
  /\ raised.kind \in {"none", "ValueError"}
  /\ pc \in {"layers", "tail", "return", "done"} => raised = NoError
  /\ (LayerBuilt /\ Ti > Tt) =>
       /\ Ti = Tt + 1 /\ Tp = 0
       /\ cur.shape = <<hparams.batch_size, Ti, targets[layer].shape[3]>>
       /\ Len(cur.attention_outputs) = Ti
       /\ cur.steps[1] = 0
       /\ \A j \in 1..Tt : cur.attention[1][j] = RatZero
       /\ RatEq(cur.attention_outputs[1], RatZero)

C4_Witness ==
  /\ LayerBuilt /\ mode = "train" /\ Ti = 3 /\ Tt = 2
  /\ raised = NoError /\ Len(cur.attention_outputs) = 3

\* C5 as stated: through the self-similarity layer Tt >= Ti for every
\* Tp >= 0 and T >= 1, the train/eval wiring included.
C5_Original ==
  \A l \in 1..Len(self_similarity) :
    self_similarity[l].shape[3] >= self_similarity[l].shape[2]

\* C5 as amended: Tt = Tp + T - 1, so Tt >= Ti - 1 always and Tt >= Ti
\* exactly when Tp >= 1; in train and eval every layer has Tp = 0 and
\* Tt = Ti - 1.
C5_TargetSteps ==
  \A l \in 1..Len(self_similarity) :
    LET nt == self_similarity[l].shape[3]
        ni == self_similarity[l].shape[2]
        np == past_targets[l].shape[2]
    IN /\ ni = inputs.shape[2]
       /\ nt = np + ni - 1
       /\ (nt >= ni) <=> (np >= 1)
       /\ mode \in {"train", "eval"} => (np = 0 /\ nt = ni - 1)

C5_Witness ==
  /\ mode = "eval" /\ Len(self_similarity) = 2
  /\ self_similarity[2].shape[2] = 3 /\ self_similarity[2].shape[3] = 2

\* C6: every target with a nonzero weight in row i lies at an absolute
\* position in [1, Tp + i] of past_inputs || inputs: never later than the
\* row's own position, and never the first element.
C6_NoFutureAttention ==
  LayerBuilt =>
    \A r \in 1..Ti : \A j \in 1..Len(cur.attention[r]) :
      cur.attention[r][j][1] # 0 =>
        /\ cur.attn_targets[j].pos >= 1
        /\ cur.attn_targets[j].pos <= Len(cur.past) + r - 1

C6_Witness ==
  /\ LayerBuilt /\ Len(cur.past) = 2 /\ Ti = 2
  /\ cur.attention[2][3][1] # 0 /\ cur.attn_targets[3].pos = 3
  /\ cur.attention[1][1][1] # 0 /\ cur.attn_targets[1].pos = 1

\* C7: for inputs (B, T, D) and past_inputs (B, Tp, D), Tp >= 0, T >= 1,
\* self_similarity_attention ends without a shape error and returns
\* attention_output (B, T, D) and self_similarity (B, T, Tp + T - 1).
C7_Shapes ==
  /\ raised.kind # "InvalidArgumentError"
  /\ LayerBuilt =>
       LET B == hparams.batch_size
           T == inputs.shape[2]
           D == Last(hparams.rnn_layer_sizes[layer])
       IN /\ targets[layer].shape = <<B, T, D>>
          /\ past_targets[layer].shape = <<B, Tp, D>>
          /\ cur.shape = <<B, T, D>>
          /\ self_similarity[layer].shape = <<B, T, Tp + T - 1>>
          /\ Len(cur.attention_outputs) = T
          /\ Len(cur.sim) = T
          /\ \A r \in 1..T : Len(cur.sim[r]) = Tp + T - 1

\* B = 2, T = 3, Tp = 0, D = 4 gives (2, 3, 4) and (2, 3, 2).
C7_Witness ==
  /\ LayerBuilt /\ Tp = 0
  /\ targets[layer].shape = <<2, 3, 4>>
  /\ cur.shape = <<2, 3, 4>>
  /\ self_similarity[layer].shape = <<2, 3, 2>>

\* The names that hold at least one registered value.
Registered == {n \in CollectionNames : collections[n] # <<>>}

\* The flattened state components expected for layers l.. and, within a
\* layer, sub-cells c..: c then h of each sub-cell, in sub-cell order.
RECURSIVE ExpectedCells(_, _, _)
ExpectedCells(kind, l, c) ==
  IF c > Len(hparams.rnn_layer_sizes[l]) THEN <<>>
  ELSE << [name |-> <<kind, l, c, "c">>,
           shape |-> <<hparams.batch_size, hparams.rnn_layer_sizes[l][c]>>],
          [name |-> <<kind, l, c, "h">>,
           shape |-> <<hparams.batch_size, hparams.rnn_layer_sizes[l][c]>>] >>
       \o ExpectedCells(kind, l, c + 1)

RECURSIVE ExpectedStates(_, _)
ExpectedStates(kind, l) ==
  IF l > num_layers THEN <<>>
  ELSE ExpectedCells(kind, l, 1) \o ExpectedStates(kind, l + 1)

ImageSummaries ==
  SelectSeq(collections["summaries"],
            LAMBDA e : e.name[1] = "summary.image")
ScalarSummaries ==
  SelectSeq(collections["summaries"],
            LAMBDA e : e.name[1] = "summary.scalar")

\* C8: what build_graph registers is fixed by the mode.  generate: exactly
\* inputs, temperature, softmax and, per layer in layer order, targets,
\* past_targets and the flattened initial and final state.  train: train_op,
\* the seven loss/metric names and one self-similarity image per layer; no
\* eval_ops, nothing of generate.  eval: eval_ops and the metric names; no
\* train_op, no image, nothing of generate.
C8_NamedOutputs ==
  /\ pc \notin {"return", "done"} => collections = NoCollections
  /\ (pc \in {"return", "done"} /\ mode = "generate") =>
       /\ Registered = {"inputs", "temperature", "softmax", "targets",
                        "past_targets", "initial_state", "final_state"}
       /\ collections["inputs"] = <<inputs>>
       /\ Len(collections["temperature"]) = 1
       /\ Len(collections["softmax"]) = 1
       /\ collections["targets"] = targets
       /\ Len(collections["targets"]) = num_layers
       /\ \A l \in 1..num_layers :
            collections["targets"][l].name = <<"rnn_outputs", l, 0, "">>
       /\ collections["past_targets"] = past_targets
       /\ Len(collections["past_targets"]) = num_layers
       /\ collections["initial_state"] = ExpectedStates("zero_state", 1)
       /\ collections["final_state"] = ExpectedStates("final_state", 1)
  /\ (pc \in {"return", "done"} /\ mode = "train") =>
       /\ Registered =
            {"train_op", "summaries", "loss", "metrics/perplexity",
             "metrics/accuracy", "metrics/event_accuracy",
             "metrics/no_event_accuracy", "metrics/loss_per_step",
             "metrics/perplexity_per_step"}
       /\ \A n \in Registered \ {"summaries"} : Len(collections[n]) = 1
       /\ Len(ImageSummaries) = num_layers
       /\ \A l \in 1..num_layers :
            /\ ImageSummaries[l].name = <<"summary.image", l, 0,
                                          "self_similarity">>
            /\ ImageSummaries[l].shape = self_similarity[l].shape
       /\ Len(ScalarSummaries) = 7
  /\ (pc \in {"return", "done"} /\ mode = "eval") =>
       /\ Registered =
            {"eval_ops", "summaries", "loss", "metrics/accuracy",
             "metrics/per_class_accuracy", "metrics/event_accuracy",
             "metrics/no_event_accuracy", "metrics/loss_per_step",
             "metrics/perplexity", "metrics/perplexity_per_step"}
       /\ Len(collections["eval_ops"]) = 6
       /\ \A n \in Registered \ {"summaries", "eval_ops"} :
            Len(collections[n]) = 1
       /\ ImageSummaries = <<>>
       /\ Len(ScalarSummaries) = 8

C8_Witness ==
  /\ pc = "done" /\ mode = "generate" /\ num_layers = 2
  /\ Len(collections["initial_state"]) = 6
  /\ collections["initial_state"][5].name = <<"zero_state", 2, 1, "c">>

\* The attention outputs the layer built last would give for other values
\* of its recurrent outputs.
AttentionOutputsFor(alt) ==
  self_similarity_attention(alt, cur.past, cur.w_in, cur.w_tgt,
                            [attention_outputs |-> cur.shape]).attention_outputs

\* C9: in train and eval, with true length L, the attention output at each
\* row i < L depends only on the recurrent outputs at positions <= i (so
\* not on any padded position), and the flattened positions and labels are
\* exactly the positions < L of each example.
C9_PaddingNoInfluence ==
  /\ (LayerBuilt /\ mode \in {"train", "eval"}) =>
       LET T == Len(cur.rnn_outputs)
           L == lengths[1]
       IN \A alt \in [1..T -> Vals] : \A r \in 1..L :
            (\A i \in 1..r : alt[i] = cur.rnn_outputs[i]) =>
              RatEq(AttentionOutputsFor(alt)[r], cur.attention_outputs[r])
  /\ (pc \in {"tail", "return", "done"} /\ mode \in {"train", "eval"}) =>
       /\ Range1(flat.positions) =
            {<<b, t>> \in (1..hparams.batch_size) \X (1..inputs.shape[2]) :
               t <= lengths[b]}
       /\ Len(flat.positions) =
            SumSeq([b \in 1..hparams.batch_size |-> lengths[b]])
       /\ Len(flat.labels_flat) = Len(flat.positions)

C9_Witness ==
  /\ LayerBuilt /\ mode = "train"
  /\ Len(cur.rnn_outputs) = 3 /\ lengths[1] = 2
  /\ cur.attention[2][1][1] > 0
  /\ ~RatEq(cur.attention_outputs[2], RatZero)

\* C10: in train mode the event and no-event accuracies are computed
\* without dividing by zero, also when the batch has no event position or
\* no no-event position.
C10_GuardedAccuracies ==
  (mode = "train" /\ pc \in {"return", "done"}) =>
    /\ metrics.event_accuracy[2] # 0
    /\ metrics.no_event_accuracy[2] # 0

====
